---- MODULE Spec2Model ----
(***************************************************************************)
(* Model of gltf-viewer: scene-graph construction and draw traversal       *)
(* (src/render/node.rs), primitive construction (src/render/primitive.rs)  *)
(* and the HTTP data source (src/http_source.rs).                          *)
(*                                                                         *)
(* Numbers: the program's f32 components are modelled by integers, so the  *)
(* matrix algebra is exact.  A 4x4 matrix is a sequence of 16 components   *)
(* in the argument order of Matrix4::new (column-major: c0r0, c0r1, ...).  *)
(***************************************************************************)
EXTENDS Integers, Sequences, FiniteSets, TLC

VARIABLES
    \* ---- scene construction and drawing (render/node.rs) ----
    doc,            \* the parsed glTF document handed to the builder
    phase,          \* "build", "built", "draw", "drawn"
    root_idx,       \* number of document roots already handed to from_gltf
    build_stack,    \* activation records of the recursive Node::from_gltf
    nodes,          \* constructed Nodes, keyed by the document node they come from
    scene_nodes,    \* Scene.nodes: constructed roots, in order
    scene_meshes,   \* Scene.meshes: sequence of Rc<Mesh> (allocation ids)
    mesh_heap,      \* allocation id -> the Mesh value built by Mesh::from_gltf
    draw_stack,     \* activation records of the recursive Node::draw
    draw_root,      \* the node Node::draw was called on, and the matrix passed in
    gl_events,      \* shader / GPU calls issued so far, in order
    visited,        \* ghost: nodes entered by Node::draw with their model_matrix
    \* ---- primitive construction (render/primitive.rs) ----
    g_primitive,    \* the document primitive handed to Primitive::from_gltf
    prim_pc,        \* position inside Primitive::from_gltf
    vertices,       \* local `vertices`
    indices,        \* local `indices` after widening
    \* ---- HTTP source (http_source.rs) ----
    url,            \* HttpSource.url
    server,         \* the responses the transport may give for each location
    plan,           \* the calls the importer is going to make on the source
    caller_pc,      \* number of calls of the plan already made
    caller,         \* "running" or "panicked"
    fetches,        \* every fetch issued so far: request, task state, result
    queue,          \* the pool's task queue (ids of fetches), FIFO
    delivered       \* what the caller got from the futures it waited on

scene_vars == <<doc, phase, root_idx, build_stack, nodes, scene_nodes,
                scene_meshes, mesh_heap, draw_stack, draw_root, gl_events, visited>>
prim_vars  == <<g_primitive, prim_pc, vertices, indices>>
http_vars  == <<url, server, plan, caller_pc, caller, fetches, queue, delivered>>
vars == <<scene_vars, prim_vars, http_vars>>

----------------------------------------------------------------------------
(* Bounds *)
MaxNodes == 3       \* document nodes
MaxLen == 2         \* length of an attribute / index stream
MaxCalls == 3       \* calls of a free-form importer plan
MaxQueued == 2      \* fetches issued beyond the pool size in a burst plan

----------------------------------------------------------------------------
(* render::math, as far as node.rs uses it *)

Identity == <<1,0,0,0, 0,1,0,0, 0,0,1,0, 0,0,0,1>>

\* Matrix4 * Matrix4 : (A*B)[c][r] = sum_k A[k][r] * B[c][k], columns c and rows r from 0
Cell(A, B, c, r) ==
    A[r + 1] * B[4*c + 1] + A[4 + r + 1] * B[4*c + 2]
    + A[8 + r + 1] * B[4*c + 3] + A[12 + r + 1] * B[4*c + 4]

Mul(A, B) ==
    << Cell(A, B, 0, 0), Cell(A, B, 0, 1), Cell(A, B, 0, 2), Cell(A, B, 0, 3),
       Cell(A, B, 1, 0), Cell(A, B, 1, 1), Cell(A, B, 1, 2), Cell(A, B, 1, 3),
       Cell(A, B, 2, 0), Cell(A, B, 2, 1), Cell(A, B, 2, 2), Cell(A, B, 2, 3),
       Cell(A, B, 3, 0), Cell(A, B, 3, 1), Cell(A, B, 3, 2), Cell(A, B, 3, 3) >>

from_translation(v) == <<1,0,0,0, 0,1,0,0, 0,0,1,0, v[1],v[2],v[3],1>>

from_nonuniform_scale(x, y, z) == <<x,0,0,0, 0,y,0,0, 0,0,z,0, 0,0,0,1>>

\* Matrix4::from(Quaternion {s, v})
from_quaternion(q) ==
    LET x2 == q.v[1] + q.v[1]
        y2 == q.v[2] + q.v[2]
        z2 == q.v[3] + q.v[3]
        xx2 == x2 * q.v[1]
        xy2 == x2 * q.v[2]
        xz2 == x2 * q.v[3]
        yy2 == y2 * q.v[2]
        yz2 == y2 * q.v[3]
        zz2 == z2 * q.v[3]
        sy2 == y2 * q.s
        sz2 == z2 * q.s
        sx2 == x2 * q.s
    IN  << 1 - yy2 - zz2, xy2 + sz2, xz2 - sy2, 0,
           xy2 - sz2, 1 - xx2 - zz2, yz2 + sx2, 0,
           xz2 + sy2, yz2 - sx2, 1 - xx2 - yy2, 0,
           0, 0, 0, 1 >>

is_identity(M) == M = Identity

\* Quaternion::new(w, xi, yj, zk)
Quaternion_new(w, xi, yj, zk) == [s |-> w, v |-> <<xi, yj, zk>>]

----------------------------------------------------------------------------
(* Documents *)

NoMesh == -1
MeshIndices == {0, 1}

DefaultRotation == <<0, 0, 0, 1>>      \* document order [x, y, z, w]
DefaultScale == <<1, 1, 1>>
DefaultTranslation == <<0, 0, 0>>

\* a 90 degree rotation about Y, and a scale-and-translate matrix
RotY90 == <<0,0,-1,0, 0,1,0,0, 1,0,0,0, 0,0,0,1>>
ScaleMove == <<2,0,0,0, 0,1,0,0, 0,0,1,0, 3,0,0,1>>

Xforms == <<
    [matrix |-> Identity, translation |-> DefaultTranslation,
     rotation |-> DefaultRotation, scale |-> DefaultScale],
    [matrix |-> Identity, translation |-> <<1, 0, 0>>,
     rotation |-> DefaultRotation, scale |-> DefaultScale],
    [matrix |-> Identity, translation |-> <<0, 2, 0>>,
     rotation |-> <<1, 2, 3, 4>>, scale |-> <<2, 1, 3>>],
    [matrix |-> ScaleMove, translation |-> <<5, 0, 0>>,
     rotation |-> <<1, 0, 0, 0>>, scale |-> <<1, 2, 1>>],
    [matrix |-> RotY90, translation |-> DefaultTranslation,
     rotation |-> DefaultRotation, scale |-> DefaultScale] >>

NXforms == Len(Xforms)

\* the ids i of 1..n with par[i] = p, ascending
RECURSIVE Ascending(_, _, _, _)
Ascending(par, p, i, n) ==
    IF i > n THEN <<>>
    ELSE (IF par[i] = p THEN <<i>> ELSE <<>>) \o Ascending(par, p, i + 1, n)

Reverse(s) == [i \in 1..Len(s) |-> s[Len(s) + 1 - i]]

ChildList(par, p, n, rev) ==
    IF rev THEN Reverse(Ascending(par, p, 1, n)) ELSE Ascending(par, p, 1, n)

\* a forest on nodes 1..n: par[i] is the parent of i, 0 for a root
Shapes(n) == {par \in [1..n -> 0..(n - 1)] : \A i \in 1..n : par[i] < i}

MkDoc(n, par, rev, mesh, xf) ==
    [roots |-> ChildList(par, 0, n, rev),
     node |-> [i \in 1..n |->
        [children |-> ChildList(par, i, n, rev),
         mesh |-> mesh[i],
         matrix |-> Xforms[xf[i]].matrix,
         translation |-> Xforms[xf[i]].translation,
         rotation |-> Xforms[xf[i]].rotation,
         scale |-> Xforms[xf[i]].scale]]]

\* every assignment of meshes, transforms following the node number
MeshDocs ==
    {MkDoc(n, par, rev, mesh, [i \in 1..n |-> ((i - 1) % NXforms) + 1]) :
        n \in {MaxNodes}, par \in Shapes(MaxNodes), rev \in BOOLEAN,
        mesh \in [1..MaxNodes -> MeshIndices \cup {NoMesh}]}

\* every assignment of non-default transforms, odd nodes carry mesh 0
XformDocs ==
    {MkDoc(n, par, FALSE, [i \in 1..n |-> IF i % 2 = 1 THEN 0 ELSE NoMesh], xf) :
        n \in {MaxNodes}, par \in Shapes(MaxNodes),
        xf \in [1..MaxNodes -> 2..NXforms]}

SmallDocs ==
    UNION {{MkDoc(n, par, FALSE, mesh, [i \in 1..n |-> ((i - 1) % NXforms) + 1]) :
                par \in Shapes(n), mesh \in [1..n -> MeshIndices \cup {NoMesh}]} :
           n \in 1..(MaxNodes - 1)}

Docs == MeshDocs \cup XformDocs \cup SmallDocs

DocNodes == DOMAIN doc.node

----------------------------------------------------------------------------
(* Node::from_gltf *)

\* Matrix4::new(m[0], m[1], m[2], m[2], m[4], ..., m[15])   (sequences are 1-based)
matrix_from_gltf(m) ==
    << m[1],  m[2],  m[3],  m[3],
       m[5],  m[6],  m[7],  m[8],
       m[9],  m[10], m[11], m[12],
       m[13], m[14], m[15], m[16] >>

\* variant: the document order kept
rotation_from_gltf_xyzw(r) == Quaternion_new(r[1], r[2], r[3], r[4])

\* Quaternion::new(r[3], r[0], r[1], r[2])
rotation_from_gltf(r) == Quaternion_new(r[4], r[1], r[2], r[3])

\* Mesh::from_gltf(g_mesh): the Mesh value remembers the document index
Mesh_from_gltf(index) == [index |-> index]

\* variant: the lookup never finds anything
find_mesh_never(meshes, heap, index) == 0

\* scene.meshes.iter().find(|mesh| mesh.index == g_mesh.index()); 0 stands for None
find_mesh(meshes, heap, index) ==
    LET hits == {i \in 1..Len(meshes) : heap[meshes[i]].index = index}
    IN  IF hits = {} THEN 0
        ELSE meshes[CHOOSE i \in hits : \A j \in hits : i <= j]

\* does the entry code of from_gltf construct a new Mesh for document node g?
builds_mesh(g) ==
    /\ doc.node[g].mesh # NoMesh
    /\ find_mesh(scene_meshes, mesh_heap, doc.node[g].mesh) = 0

\* the body of from_gltf up to the recursion into the children (lines 28-47)
from_gltf_enter(g, callers) ==
    LET gn == doc.node[g]
        found == IF gn.mesh = NoMesh THEN 0
                 ELSE find_mesh(scene_meshes, mesh_heap, gn.mesh)
        mesh == IF builds_mesh(g) THEN Len(mesh_heap) + 1 ELSE found
    IN  /\ mesh_heap' = IF builds_mesh(g)
                        THEN Append(mesh_heap, Mesh_from_gltf(gn.mesh))
                        ELSE mesh_heap
        /\ scene_meshes' = IF builds_mesh(g)
                           THEN Append(scene_meshes, mesh)
                           ELSE scene_meshes
        /\ build_stack' = Append(callers,
                [g |-> g,
                 matrix |-> matrix_from_gltf(gn.matrix),
                 rotation |-> rotation_from_gltf(gn.rotation),
                 mesh |-> mesh,
                 children |-> <<>>])

Top(stack) == stack[Len(stack)]
Pop(stack) == SubSeq(stack, 1, Len(stack) - 1)

\* the scene builder hands the next document root to Node::from_gltf
Scene_from_gltf ==
    /\ phase = "build"
    /\ build_stack = <<>>
    /\ root_idx < Len(doc.roots)
    /\ root_idx' = root_idx + 1
    /\ from_gltf_enter(doc.roots[root_idx + 1], <<>>)
    /\ UNCHANGED <<doc, phase, nodes, scene_nodes, draw_stack, draw_root, gl_events, visited>>
    /\ UNCHANGED <<prim_vars, http_vars>>

\* g_node.children().map(|g_node| Node::from_gltf(g_node, scene)): the next child
Node_from_gltf_child ==
    /\ phase = "build"
    /\ build_stack # <<>>
    /\ LET top == Top(build_stack)
           kids == doc.node[top.g].children
       IN  /\ Len(top.children) < Len(kids)
           /\ from_gltf_enter(kids[Len(top.children) + 1], build_stack)
    /\ UNCHANGED <<doc, phase, root_idx, nodes, scene_nodes, draw_stack, draw_root,
                   gl_events, visited>>
    /\ UNCHANGED <<prim_vars, http_vars>>

\* all children collected: the Node value is constructed and returned (lines 48-62)
Node_from_gltf_return ==
    /\ phase = "build"
    /\ build_stack # <<>>
    /\ LET top == Top(build_stack)
           gn == doc.node[top.g]
           node == [children |-> top.children,
                    matrix |-> top.matrix,
                    mesh |-> top.mesh,
                    rotation |-> top.rotation,
                    scale |-> gn.scale,
                    translation |-> gn.translation]
           rest == Pop(build_stack)
       IN  /\ Len(top.children) = Len(gn.children)
           /\ nodes' = [k \in DOMAIN nodes \cup {top.g} |->
                            IF k = top.g THEN node ELSE nodes[k]]
           /\ IF rest = <<>>
              THEN /\ scene_nodes' = Append(scene_nodes, top.g)
                   /\ build_stack' = rest
              ELSE /\ scene_nodes' = scene_nodes
                   /\ build_stack' =
                        [rest EXCEPT ![Len(rest)].children = Append(@, top.g)]
    /\ UNCHANGED <<doc, phase, root_idx, scene_meshes, mesh_heap, draw_stack, draw_root,
                   gl_events, visited>>
    /\ UNCHANGED <<prim_vars, http_vars>>

\* every root has been converted: the scene is complete
Scene_built ==
    /\ phase = "build"
    /\ build_stack = <<>>
    /\ root_idx = Len(doc.roots)
    /\ phase' = "built"
    /\ UNCHANGED <<doc, root_idx, build_stack, nodes, scene_nodes, scene_meshes, mesh_heap,
                   draw_stack, draw_root, gl_events, visited>>
    /\ UNCHANGED <<prim_vars, http_vars>>

----------------------------------------------------------------------------
(* Node::draw *)

\* variant: rotation applied before scale
draw_model_matrix_trs(node, model_matrix) ==
    IF ~is_identity(node.matrix)
    THEN Mul(model_matrix, node.matrix)
    ELSE Mul(Mul(Mul(model_matrix,
                     from_translation(node.translation)),
                 from_quaternion(node.rotation)),
             from_nonuniform_scale(node.scale[1], node.scale[2], node.scale[3]))

\* lines 67-77: the model matrix of a node, given the one passed in
draw_model_matrix(node, model_matrix) ==
    IF ~is_identity(node.matrix)
    THEN Mul(model_matrix, node.matrix)
    ELSE Mul(Mul(Mul(model_matrix,
                     from_translation(node.translation)),
                 from_nonuniform_scale(node.scale[1], node.scale[2], node.scale[3])),
             from_quaternion(node.rotation))

\* variant: the mesh drawn before the uniform is set
draw_calls_late_uniform(node, model_matrix) ==
    IF node.mesh # 0
    THEN << [op |-> "mesh_draw", mesh |-> node.mesh],
            [op |-> "set_mat4", name |-> "model", value |-> model_matrix] >>
    ELSE <<>>

\* lines 79-86: the shader and mesh calls of one node
draw_calls(node, model_matrix) ==
    IF node.mesh # 0
    THEN << [op |-> "set_mat4", name |-> "model", value |-> model_matrix],
            [op |-> "mesh_draw", mesh |-> node.mesh] >>
    ELSE <<>>

\* lines 65-86 for node n, called with matrix m from the activation records `callers`
draw_enter(n, m, callers) ==
    LET model_matrix == draw_model_matrix(nodes[n], m)
    IN  /\ gl_events' = gl_events \o draw_calls(nodes[n], model_matrix)
        /\ visited' = Append(visited, [n |-> n, model_matrix |-> model_matrix])
        /\ draw_stack' = Append(callers,
                                [n |-> n, model_matrix |-> model_matrix, next |-> 1])

ParentMatrices == {Identity, Mul(from_translation(<<0, 0, 7>>), RotY90)}

\* the renderer calls Node::draw on a root of the scene
Node_draw ==
    /\ phase = "built"
    /\ \E i \in 1..Len(scene_nodes), m \in ParentMatrices :
          /\ draw_root' = [n |-> scene_nodes[i], model_matrix |-> m]
          /\ draw_enter(scene_nodes[i], m, <<>>)
    /\ phase' = "draw"
    /\ UNCHANGED <<doc, root_idx, build_stack, nodes, scene_nodes, scene_meshes, mesh_heap>>
    /\ UNCHANGED <<prim_vars, http_vars>>

\* lines 87-89: node.draw(shader, &model_matrix) for the next child
Node_draw_child ==
    /\ phase = "draw"
    /\ draw_stack # <<>>
    /\ LET top == Top(draw_stack)
           kids == nodes[top.n].children
       IN  /\ top.next <= Len(kids)
           /\ draw_enter(kids[top.next], top.model_matrix,
                         [draw_stack EXCEPT ![Len(draw_stack)].next = @ + 1])
    /\ UNCHANGED <<doc, phase, root_idx, build_stack, nodes, scene_nodes, scene_meshes,
                   mesh_heap, draw_root>>
    /\ UNCHANGED <<prim_vars, http_vars>>

\* the loop over the children is exhausted: draw returns
Node_draw_return ==
    /\ phase = "draw"
    /\ draw_stack # <<>>
    /\ Top(draw_stack).next > Len(nodes[Top(draw_stack).n].children)
    /\ draw_stack' = Pop(draw_stack)
    /\ phase' = IF Len(draw_stack) = 1 THEN "drawn" ELSE "draw"
    /\ UNCHANGED <<doc, root_idx, build_stack, nodes, scene_nodes, scene_meshes,
                   mesh_heap, draw_root, gl_events, visited>>
    /\ UNCHANGED <<prim_vars, http_vars>>

----------------------------------------------------------------------------
(* Primitive::from_gltf *)

Zero2 == <<0, 0>>
Zero3 == <<0, 0, 0>>

\* Vertex::default()
Vertex_default ==
    [position |-> Zero3, normal |-> Zero3, tex_coords |-> Zero2,
     tangent |-> Zero3, bitangent |-> Zero3]

Min(a, b) == IF a <= b THEN a ELSE b

\* positions.zip(normals).map(|(position, normal)| Vertex {..}).collect()
zip_vertices(positions, normals) ==
    [i \in 1..Min(Len(positions), Len(normals)) |->
        [Vertex_default EXCEPT !.position = positions[i], !.normal = normals[i]]]

\* variant: widening through a signed type
as_u32_signed(i) ==
    i \o [k \in 1..(4 - Len(i)) |-> IF i[Len(i)] >= 128 THEN 255 ELSE 0]

\* An index is held as its little-endian bytes: 1 for u8, 2 for u16, 4 for u32.
\* `i as u32` from an unsigned type zero-extends.
as_u32(i) == i \o [k \in 1..(4 - Len(i)) |-> 0]

\* match indices { U8(..) => .., U16(..) => .., U32(..) => .. }
widen_indices(ind) ==
    CASE ind.width = "U8"  -> [k \in 1..Len(ind.values) |-> as_u32(ind.values[k])]
      [] ind.width = "U16" -> [k \in 1..Len(ind.values) |-> as_u32(ind.values[k])]
      [] ind.width = "U32" -> [k \in 1..Len(ind.values) |-> as_u32(ind.values[k])]

\* lines 69-71: the three unwraps
Primitive_unwrap ==
    /\ prim_pc = "start"
    /\ prim_pc' = IF /\ g_primitive.positions.some
                     /\ g_primitive.normals.some
                     /\ g_primitive.indices.some
                  THEN "zip" ELSE "unwrap_panic"
    /\ UNCHANGED <<g_primitive, vertices, indices>>
    /\ UNCHANGED <<scene_vars, http_vars>>

\* lines 74-80
Primitive_zip ==
    /\ prim_pc = "zip"
    /\ vertices' = zip_vertices(g_primitive.positions.items, g_primitive.normals.items)
    /\ prim_pc' = "widen"
    /\ UNCHANGED <<g_primitive, indices>>
    /\ UNCHANGED <<scene_vars, http_vars>>

\* lines 82-86
Primitive_widen ==
    /\ prim_pc = "widen"
    /\ indices' = widen_indices(g_primitive.indices)
    /\ prim_pc' = "new"
    /\ UNCHANGED <<g_primitive, vertices>>
    /\ UNCHANGED <<scene_vars, http_vars>>

\* Primitive::new -> setup_primitive takes &self.vertices[0] and &self.indices[0]
Primitive_new ==
    /\ prim_pc = "new"
    /\ prim_pc' = IF vertices = <<>> \/ indices = <<>> THEN "setup_panic" ELSE "done"
    /\ UNCHANGED <<g_primitive, vertices, indices>>
    /\ UNCHANGED <<scene_vars, http_vars>>

Positions == {<<0, 0, 0>>, <<1, 2, 3>>}
Normals == {<<0, 0, 1>>, <<1, 0, 0>>}

SeqsUpTo(S, n) == UNION {[1..k -> S] : k \in 0..n}

IndexValues(width) ==
    CASE width = "U8"  -> {<<0>>, <<2>>, <<255>>}
      [] width = "U16" -> {<<0, 0>>, <<2, 0>>, <<255, 0>>, <<255, 255>>}
      [] width = "U32" -> {<<0, 0, 0, 0>>, <<2, 0, 0, 0>>, <<255, 0, 0, 0>>,
                           <<255, 255, 0, 0>>, <<255, 255, 255, 255>>}

Widths == {"U8", "U16", "U32"}

Absent == [some |-> FALSE, items |-> <<>>]
Streams(S) == {Absent} \cup {[some |-> TRUE, items |-> s] : s \in SeqsUpTo(S, MaxLen)}

IndexStreams ==
    {[some |-> FALSE, width |-> "U8", values |-> <<>>]} \cup
    UNION {{[some |-> TRUE, width |-> w, values |-> s] : s \in SeqsUpTo(IndexValues(w), MaxLen)} :
           w \in Widths}

GPrimitives ==
    [positions : Streams(Positions), normals : Streams(Normals), indices : IndexStreams]

----------------------------------------------------------------------------
(* HttpSource *)

PoolSize == 6

RECURSIVE JoinPath(_)
JoinPath(path) ==
    IF path = <<>> THEN "" ELSE "/" \o Head(path) \o JoinPath(Tail(path))

\* Url::to_string
url_to_string(u) ==
    IF u.cannot_be_a_base THEN u.origin
    ELSE IF u.path = <<>> THEN u.origin \o "/"
    ELSE u.origin \o JoinPath(u.path)

\* PathSegmentsMut::pop and ::push
path_pop(path) == IF path = <<>> THEN <<>> ELSE SubSeq(path, 1, Len(path) - 1)
path_push(path, segment) == Append(path, segment)

\* variant: the uri pushed without the pop
external_url_no_pop(u, uri) == [u EXCEPT !.path = path_push(u.path, uri)]

\* lines 68-71: new_url = self.url.clone(); new_url.path_segments_mut()...pop().push(uri)
external_url(u, uri) == [u EXCEPT !.path = path_push(path_pop(u.path), uri)]

\* the closure of fetch_data, run by a pool thread (lines 46-55)
fetch_result(response) ==
    CASE response = "error"  -> "panic"      \* reqwest::get(&url).unwrap()
      [] response = "status" -> "panic"      \* assert!(resp.status().is_success(), ..)
      [] response = "success" -> "Ok"

\* fetch_data: cpu_pool.spawn_fn(closure) queues the task and returns the future
fetch_data(location) ==
    /\ fetches' = Append(fetches,
                         [location |-> location, state |-> "queued",
                          response |-> "none", result |-> "none"])
    /\ queue' = Append(queue, Len(fetches) + 1)

NextCall == plan[caller_pc + 1]

source_gltf ==
    /\ caller = "running"
    /\ caller_pc < Len(plan)
    /\ NextCall.op = "source_gltf"
    /\ fetch_data(url_to_string(url))
    /\ caller_pc' = caller_pc + 1
    /\ UNCHANGED <<url, server, plan, caller, delivered>>
    /\ UNCHANGED <<scene_vars, prim_vars>>

source_external_data ==
    /\ caller = "running"
    /\ caller_pc < Len(plan)
    /\ NextCall.op = "source_external_data"
    /\ IF url.cannot_be_a_base
       THEN \* .expect("URL cannot be base")
            /\ caller' = "panicked"
            /\ UNCHANGED <<fetches, queue>>
       ELSE /\ fetch_data(url_to_string(external_url(url, NextCall.uri)))
            /\ caller' = caller
    /\ caller_pc' = caller_pc + 1
    /\ UNCHANGED <<url, server, plan, delivered>>
    /\ UNCHANGED <<scene_vars, prim_vars>>

Running == {id \in 1..Len(fetches) : fetches[id].state = "running"}

\* variant: a thread per task
Worker_take_unbounded ==
    /\ queue # <<>>
    /\ fetches' = [fetches EXCEPT ![Head(queue)].state = "running"]
    /\ queue' = Tail(queue)
    /\ UNCHANGED <<url, server, plan, caller_pc, caller, delivered>>
    /\ UNCHANGED <<scene_vars, prim_vars>>

\* an idle pool thread takes the oldest queued task
Worker_take ==
    /\ queue # <<>>
    /\ Cardinality(Running) < PoolSize
    /\ fetches' = [fetches EXCEPT ![Head(queue)].state = "running"]
    /\ queue' = Tail(queue)
    /\ UNCHANGED <<url, server, plan, caller_pc, caller, delivered>>
    /\ UNCHANGED <<scene_vars, prim_vars>>

\* a pool thread runs the closure to its end; the pool catches a panic of the
\* closure and stores it in the future
Worker_run(id) ==
    /\ fetches[id].state = "running"
    /\ \E response \in server[fetches[id].location] :
          fetches' = [fetches EXCEPT ![id].state = "done",
                                     ![id].response = response,
                                     ![id].result = fetch_result(response)]
    /\ UNCHANGED <<url, server, plan, caller_pc, caller, queue, delivered>>
    /\ UNCHANGED <<scene_vars, prim_vars>>

\* the caller waits on a future: it gets the value, or the stored panic resumes in it
Future_wait ==
    /\ caller = "running"
    /\ caller_pc < Len(plan)
    /\ NextCall.op = "wait"
    /\ fetches[NextCall.id].state = "done"
    /\ IF fetches[NextCall.id].result = "panic"
       THEN /\ caller' = "panicked"
            /\ delivered' = delivered
       ELSE /\ caller' = caller
            /\ delivered' = Append(delivered,
                                   [id |-> NextCall.id, value |-> fetches[NextCall.id].result])
    /\ caller_pc' = caller_pc + 1
    /\ UNCHANGED <<url, server, plan, fetches, queue>>
    /\ UNCHANGED <<scene_vars, prim_vars>>

----------------------------------------------------------------------------
(* Inputs of the HTTP source *)

Urls == {
    [origin |-> "https://host", path |-> <<"dir", "scene.gltf">>, cannot_be_a_base |-> FALSE],
    [origin |-> "https://host", path |-> <<"scene.gltf">>, cannot_be_a_base |-> FALSE],
    [origin |-> "https://host", path |-> <<"">>, cannot_be_a_base |-> FALSE],
    [origin |-> "data:text/plain,x", path |-> <<>>, cannot_be_a_base |-> TRUE] }

Uris == {"buffer.bin", "tex.png"}

Responses == {"success", "status", "error"}

Call_gltf == [op |-> "source_gltf", uri |-> "", id |-> 0]
Call_external(uri) == [op |-> "source_external_data", uri |-> uri, id |-> 0]
Call_wait(id) == [op |-> "wait", uri |-> "", id |-> id]

Issues(calls, n) == Cardinality({i \in 1..n : calls[i].op # "wait"})

\* a wait names a future that exists and has not been consumed
ValidPlan(calls) ==
    \A i \in 1..Len(calls) :
        calls[i].op = "wait" =>
            /\ calls[i].id <= Issues(calls, i - 1)
            /\ \A j \in 1..(i - 1) : calls[j] # calls[i]

FreePlans ==
    {calls \in SeqsUpTo({Call_gltf} \cup {Call_external(u) : u \in Uris}
                        \cup {Call_wait(k) : k \in 1..MaxCalls}, MaxCalls) :
        ValidPlan(calls)}

BurstSize == PoolSize + MaxQueued

\* the importer's usual pattern: the document, then its buffers, then it waits
BurstPlan ==
    [i \in 1..(2 * BurstSize) |->
        IF i = 1 THEN Call_gltf
        ELSE IF i <= BurstSize THEN Call_external("buffer.bin")
        ELSE Call_wait(i - BurstSize)]

Locations(u) ==
    {url_to_string(u)} \cup
    (IF u.cannot_be_a_base THEN {} ELSE {url_to_string(external_url(u, uri)) : uri \in Uris})

BurstUrl == [origin |-> "https://host", path |-> <<"dir", "scene.gltf">>,
             cannot_be_a_base |-> FALSE]

----------------------------------------------------------------------------
(* Initial states *)

EmptyDoc == [roots |-> <<>>, node |-> <<>>]

SceneStart(d, ph) ==
    /\ doc = d
    /\ phase = ph
    /\ root_idx = 0
    /\ build_stack = <<>>
    /\ nodes = <<>>
    /\ scene_nodes = <<>>
    /\ scene_meshes = <<>>
    /\ mesh_heap = <<>>
    /\ draw_stack = <<>>
    /\ draw_root = [n |-> 0, model_matrix |-> Identity]
    /\ gl_events = <<>>
    /\ visited = <<>>

PrimStart(g, pc) ==
    /\ g_primitive = g
    /\ prim_pc = pc
    /\ vertices = <<>>
    /\ indices = <<>>

NoPrimitive == [positions |-> Absent, normals |-> Absent,
                indices |-> [some |-> FALSE, width |-> "U8", values |-> <<>>]]

HttpStart(u, sv, calls) ==
    /\ url = u
    /\ server = sv
    /\ plan = calls
    /\ caller_pc = 0
    /\ caller = "running"
    /\ fetches = <<>>
    /\ queue = <<>>
    /\ delivered = <<>>

SceneIdle == SceneStart(EmptyDoc, "idle")
PrimIdle == PrimStart(NoPrimitive, "idle")
HttpIdle == HttpStart(BurstUrl, [l \in Locations(BurstUrl) |-> Responses], <<>>)

InitScene == (\E d \in Docs : SceneStart(d, "build")) /\ PrimIdle /\ HttpIdle

InitPrim == SceneIdle /\ (\E g \in GPrimitives : PrimStart(g, "start")) /\ HttpIdle

\* any short sequence of calls, against a transport that may answer anything
InitHttp ==
    /\ SceneIdle /\ PrimIdle
    /\ \E u \in Urls, calls \in FreePlans :
          HttpStart(u, [l \in Locations(u) |-> Responses], calls)

\* more fetches than pool threads, against a transport with fixed answers
InitPool ==
    /\ SceneIdle /\ PrimIdle
    /\ \E sv \in [Locations(BurstUrl) -> {{r} : r \in Responses}] :
          /\ sv[url_to_string(external_url(BurstUrl, "tex.png"))] = {"success"}
          /\ HttpStart(BurstUrl, sv, BurstPlan)

Init == InitScene \/ InitPrim \/ InitHttp \/ InitPool

----------------------------------------------------------------------------
(* Specifications *)

NextScene ==
    \/ Scene_from_gltf
    \/ Node_from_gltf_child
    \/ Node_from_gltf_return
    \/ Scene_built
    \/ Node_draw
    \/ Node_draw_child
    \/ Node_draw_return

NextPrim ==
    \/ Primitive_unwrap
    \/ Primitive_zip
    \/ Primitive_widen
    \/ Primitive_new

Worker_finish == \E id \in 1..Len(fetches) : Worker_run(id)

NextHttp ==
    \/ source_gltf
    \/ source_external_data
    \/ Worker_take
    \/ Worker_finish
    \/ Future_wait

Next == NextScene \/ NextPrim \/ NextHttp

Spec == Init /\ [][Next]_vars
SpecScene == InitScene /\ [][NextScene]_vars
SpecPrim == InitPrim /\ [][NextPrim]_vars
SpecHttp == InitHttp /\ [][NextHttp]_vars
\* the pool threads keep taking queued tasks, and a transfer that runs ends
SpecPool == InitPool /\ [][NextHttp]_vars
            /\ WF_vars(Worker_take) /\ WF_vars(Worker_finish)

----------------------------------------------------------------------------
(* Scene construction: properties *)

\* the (document node, mesh reference) pairs of the Nodes constructed or under
\* construction
Held ==
    {<<g, nodes[g].mesh>> : g \in DOMAIN nodes} \cup
    {<<build_stack[i].g, build_stack[i].mesh>> : i \in 1..Len(build_stack)}

ReferencedIndices == {doc.node[h[1]].mesh : h \in Held} \ {NoMesh}

\* C1: two Nodes whose document nodes reference the same mesh index hold the same
\* Rc<Mesh>; scene.meshes has exactly one entry per distinct mesh index
\* referenced, and Mesh::from_gltf has run exactly once per distinct index.
C1_MeshShared ==
    /\ \A h \in Held :
          IF doc.node[h[1]].mesh = NoMesh THEN h[2] = 0
          ELSE /\ h[2] \in DOMAIN mesh_heap
               /\ mesh_heap[h[2]].index = doc.node[h[1]].mesh
    /\ \A h1, h2 \in Held :
          doc.node[h1[1]].mesh = doc.node[h2[1]].mesh => h1[2] = h2[2]
    /\ {mesh_heap[scene_meshes[i]].index : i \in 1..Len(scene_meshes)} = ReferencedIndices
    /\ Len(scene_meshes) = Cardinality(ReferencedIndices)
    /\ Len(mesh_heap) = Cardinality(ReferencedIndices)

\* a finished scene in which a child shares the mesh of its parent, next to a
\* node with another mesh
C1_Witness ==
    /\ phase = "built"
    /\ \E a \in DOMAIN nodes : \E i \in 1..Len(nodes[a].children) :
          /\ nodes[a].mesh # 0
          /\ nodes[nodes[a].children[i]].mesh = nodes[a].mesh
    /\ Len(scene_meshes) = 2

\* C7: the document rotation [x, y, z, w] becomes the quaternion with scalar
\* part w and vector part (x, y, z).
C7_QuaternionOrder ==
    \A g \in DOMAIN nodes :
        /\ nodes[g].rotation.s = doc.node[g].rotation[4]
        /\ nodes[g].rotation.v[1] = doc.node[g].rotation[1]
        /\ nodes[g].rotation.v[2] = doc.node[g].rotation[2]
        /\ nodes[g].rotation.v[3] = doc.node[g].rotation[3]

C7_Witness ==
    \E g \in DOMAIN nodes :
        /\ doc.node[g].rotation = <<1, 2, 3, 4>>
        /\ nodes[g].rotation = [s |-> 4, v |-> <<1, 2, 3>>]

\* C9: every one of the 16 document matrix values is at its own position in
\* Node.matrix.
C9_MatrixTranscribed ==
    \A g \in DOMAIN nodes : \A k \in 1..16 :
        nodes[g].matrix[k] = doc.node[g].matrix[k]

----------------------------------------------------------------------------
(* Drawing: properties *)

ParentOf(n) ==
    CHOOSE p \in DOMAIN nodes : \E i \in 1..Len(nodes[p].children) : nodes[p].children[i] = n

\* the local transform the documentation gives a node
LocalTransform(node) ==
    IF node.matrix # Identity THEN node.matrix
    ELSE Mul(from_translation(node.translation),
             Mul(from_nonuniform_scale(node.scale[1], node.scale[2], node.scale[3]),
                 from_quaternion(node.rotation)))

\* the product of the local transforms from the drawn root down to n
RECURSIVE PathLocal(_)
PathLocal(n) ==
    IF n = draw_root.n THEN LocalTransform(nodes[n])
    ELSE Mul(PathLocal(ParentOf(n)), LocalTransform(nodes[n]))

PathMatrix(n) == Mul(draw_root.model_matrix, PathLocal(n))

\* C4: every node is drawn with the matrix passed to the root's draw times the
\* product, in root-to-node order, of the local transforms on its path, where a
\* local transform is the explicit matrix if that is not the identity and
\* translate * scale * rotation otherwise.
C4_EffectiveMatrix ==
    \A i \in 1..Len(visited) :
        /\ visited[i].model_matrix = PathMatrix(visited[i].n)
        /\ visited[i].n # draw_root.n =>
              \E j \in 1..(i - 1) :
                  /\ visited[j].n = ParentOf(visited[i].n)
                  /\ visited[i].model_matrix =
                        Mul(visited[j].model_matrix, LocalTransform(nodes[visited[i].n]))

\* a finished draw, started with a non-identity matrix, in which a node with
\* translation, scale and rotation hangs under a node with an explicit matrix
\* whose translation, rotation and scale are not the defaults
C4_Witness ==
    /\ phase = "drawn"
    /\ draw_root.model_matrix # Identity
    /\ \E i, j \in 1..Len(visited) :
          /\ visited[i].n # draw_root.n
          /\ visited[j].n = ParentOf(visited[i].n)
          /\ nodes[visited[j].n].matrix = ScaleMove
          /\ nodes[visited[j].n].translation = <<5, 0, 0>>
          /\ nodes[visited[i].n].matrix = Identity
          /\ nodes[visited[i].n].scale = <<2, 1, 3>>
          /\ nodes[visited[i].n].rotation = [s |-> 4, v |-> <<1, 2, 3>>]

RECURSIVE PreOrderAll(_)
RECURSIVE PreOrder(_)
PreOrder(n) == <<n>> \o PreOrderAll(nodes[n].children)
PreOrderAll(ns) == IF ns = <<>> THEN <<>> ELSE PreOrder(Head(ns)) \o PreOrderAll(Tail(ns))

RECURSIVE ExpectedEvents(_)
ExpectedEvents(ns) ==
    IF ns = <<>> THEN <<>>
    ELSE (IF nodes[Head(ns)].mesh # 0
          THEN << [op |-> "set_mat4", name |-> "model", value |-> PathMatrix(Head(ns))],
                  [op |-> "mesh_draw", mesh |-> nodes[Head(ns)].mesh] >>
          ELSE <<>>)
         \o ExpectedEvents(Tail(ns))

IsPrefix(s, t) == Len(s) <= Len(t) /\ SubSeq(t, 1, Len(s)) = s

VisitedNodes == [i \in 1..Len(visited) |-> visited[i].n]

\* C5: the shader / GPU calls of one Node::draw are those of the depth-first
\* pre-order walk: per node with a mesh one set of "model" to its matrix
\* followed by the draw of its mesh, nothing for a node without a mesh, and
\* every node of the tree is visited exactly once.
C5_PreOrderEvents ==
    phase \in {"draw", "drawn"} =>
        /\ IsPrefix(VisitedNodes, PreOrder(draw_root.n))
        /\ gl_events = ExpectedEvents(VisitedNodes)
        /\ phase = "drawn" =>
              /\ VisitedNodes = PreOrder(draw_root.n)
              /\ gl_events = ExpectedEvents(PreOrder(draw_root.n))

\* a finished draw of a root without a mesh with two children, listed in
\* descending document order, at least one of them with a mesh
C5_Witness ==
    /\ phase = "drawn"
    /\ nodes[draw_root.n].mesh = 0
    /\ Len(nodes[draw_root.n].children) >= 2
    /\ nodes[draw_root.n].children[1] > nodes[draw_root.n].children[2]
    /\ Len(gl_events) >= 2

----------------------------------------------------------------------------
(* Primitive construction: properties *)

Zipped == prim_pc \in {"widen", "new", "done", "setup_panic"}
Widened == prim_pc \in {"new", "done", "setup_panic"}

\* the little-endian numeral without its leading (last) zero bytes: two byte
\* strings denote the same number iff their trimmed forms are equal
RECURSIVE Trim(_)
Trim(b) ==
    IF b = <<>> THEN <<>>
    ELSE IF b[Len(b)] = 0 THEN Trim(SubSeq(b, 1, Len(b) - 1))
    ELSE b

WidthBytes(w) == CASE w = "U8" -> 1 [] w = "U16" -> 2 [] w = "U32" -> 4

\* the stream of width w holding the same numbers as the stream vs, if they fit
Fits(vs, w) == \A k \in 1..Len(vs) : Len(Trim(vs[k])) <= WidthBytes(w)
Recode(vs, w) ==
    [k \in 1..Len(vs) |->
        Trim(vs[k]) \o [j \in 1..(WidthBytes(w) - Len(Trim(vs[k]))) |-> 0]]

\* C8: the widened index stream has the length, the order and the values of the
\* source stream, every index 32 bits wide, and a stream of any other width
\* holding the same values widens to the identical sequence.
C8_IndexWidening ==
    Widened =>
        /\ Len(indices) = Len(g_primitive.indices.values)
        /\ \A k \in 1..Len(indices) :
              /\ Len(indices[k]) = 4
              /\ Trim(indices[k]) = Trim(g_primitive.indices.values[k])
        /\ \A w \in Widths :
              Fits(g_primitive.indices.values, w) =>
                  widen_indices([some |-> TRUE, width |-> w,
                                 values |-> Recode(g_primitive.indices.values, w)]) = indices

\* a primitive built from 16-bit indices that include 255 and 65535
C8_Witness ==
    /\ prim_pc = "done"
    /\ g_primitive.indices.width = "U16"
    /\ \E j, k \in 1..Len(indices) :
          /\ g_primitive.indices.values[j] = <<255, 255>>
          /\ indices[j] = <<255, 255, 0, 0>>
          /\ g_primitive.indices.values[k] = <<255, 0>>
          /\ indices[k] = <<255, 0, 0, 0>>

\* C10: vertex i has position i and normal i and zero tex_coords, tangent and
\* bitangent, and there are as many vertices as positions and as normals.
C10_VerticesPaired ==
    Zipped =>
        /\ Len(vertices) = Len(g_primitive.positions.items)
        /\ Len(vertices) = Len(g_primitive.normals.items)
        /\ \A i \in 1..Len(vertices) :
              vertices[i] = [position |-> g_primitive.positions.items[i],
                             normal |-> g_primitive.normals.items[i],
                             tex_coords |-> Zero2, tangent |-> Zero3, bitangent |-> Zero3]

----------------------------------------------------------------------------
(* HTTP source: properties *)

\* C2: a fetch whose transport fails or answers a non-success status resolves
\* to the error value Error::HttpError.
C2_TypedError ==
    \A id \in 1..Len(fetches) :
        (fetches[id].state = "done" /\ fetches[id].response # "success")
            => fetches[id].result = "HttpError"

\* the position in the plan of the call that issued fetch id
IssuedAt(id) ==
    CHOOSE i \in 1..Len(plan) : plan[i].op # "wait" /\ Issues(plan, i) = id

\* the root location without its last path segment
Directory == url.origin \o JoinPath(SubSeq(url.path, 1, Len(url.path) - 1))

LocationsResolved ==
    \A id \in 1..Len(fetches) :
        LET call == plan[IssuedAt(id)]
        IN  /\ call.op = "source_gltf" =>
                  fetches[id].location = url.origin \o JoinPath(url.path)
            /\ call.op = "source_external_data" =>
                  /\ fetches[id].location = Directory \o "/" \o call.uri
                  /\ (url.path = <<"dir", "scene.gltf">> /\ call.uri = "buffer.bin") =>
                        fetches[id].location = "https://host/dir/buffer.bin"

\* C3: source_external_data(uri) fetches the root location with its last path
\* segment replaced by uri, source_gltf fetches the root location, and no
\* call changes the stored root location.
C3_RelativeResolution == []LocationsResolved /\ [][url' = url]_vars

\* a relative fetch issued after another relative fetch, then the root again
C3_Witness ==
    /\ Len(fetches) = 3
    /\ url.path = <<"dir", "scene.gltf">>
    /\ fetches[1].location = "https://host/dir/tex.png"
    /\ fetches[2].location = "https://host/dir/buffer.bin"
    /\ fetches[3].location = "https://host/dir/scene.gltf"

IssueEnabled ==
    (/\ caller = "running"
     /\ caller_pc < Len(plan)
     /\ NextCall.op # "wait") => ENABLED (source_gltf \/ source_external_data)

\* issuing a fetch only adds a queued task: nothing runs as part of the call
IssueOnlyQueues ==
    Len(fetches') > Len(fetches) =>
        /\ fetches' = Append(fetches, fetches'[Len(fetches')])
        /\ fetches'[Len(fetches')].state = "queued"
        /\ fetches'[Len(fetches')].result = "none"

\* C6: at most 6 transfers execute at any moment; a fetch can be issued
\* whatever the pool is doing and the call only queues it; every issued fetch
\* is eventually executed and its future resolved.
C6_BoundedPool ==
    /\ [](Cardinality(Running) <= 6 /\ IssueEnabled)
    /\ [][IssueOnlyQueues]_vars
    /\ \A id \in 1..BurstSize :
          (Len(fetches) >= id) ~> (Len(fetches) >= id /\ fetches[id].state = "done")

\* all fetches issued before any has finished: six execute, the others wait
C6_Witness ==
    /\ Cardinality(Running) = 6
    /\ Len(queue) = MaxQueued
    /\ \A id \in 1..Len(fetches) : fetches[id].state # "done"

====
